---- MODULE Spec2Model ----
(***************************************************************************)
(* The streaming gateway of src/server.js: the /proxy route (router),      *)
(* the direct relay pipeline (proxyStream, with its event handlers) and    *)
(* the remux pipeline (fluent-ffmpeg piped into the response).             *)
(*                                                                         *)
(* Text is modelled as sequences of one-character strings, so that the     *)
(* code's string tests (startsWith, includes, the extension regex, the     *)
(* template literals) are computed on characters.  JavaScript's undefined  *)
(* and null are the value Undefined.                                       *)
(***************************************************************************)
EXTENDS Integers, Sequences, FiniteSets, TLC

-----------------------------------------------------------------------------
(* Bounds of the model *)

\* longest upstream body, in chunks
MaxBody == 2
\* most Set-Cookie headers the upstream chain sends in one session
MaxCookies == 2

(* Program constants *)

\* proxyStream gives up when attempt > 10
MaxRedirects == 10

-----------------------------------------------------------------------------
(* Text *)

\* JavaScript undefined / null: a value no text equals
Undefined == <<"undefined">>

UrlMp4 == <<"h","t","t","p",":","/","/","a","/","v",".","m","p","4">>
UrlMkv == <<"h","t","t","p",":","/","/","a","/","v",".","m","k","v">>
UrlMkvUpper == <<"h","t","t","p",":","/","/","a","/","v",".","M","K","V">>
UrlAvi == <<"h","t","t","p",":","/","/","a","/","v",".","a","v","i">>
UrlFlv == <<"h","t","t","p",":","/","/","a","/","v",".","f","l","v">>
UrlWmv == <<"h","t","t","p",":","/","/","a","/","v",".","w","m","v">>
UrlMkvQuery == <<"h","t","t","p",":","/","/","a","/","v",".","m","k","v","?","t","=","1">>
UrlYouTube == <<"h","t","t","p","s",":","/","/","y","o","u","t","u",".","b","e","/","x">>
UrlNotAbsolute == <<"v",".","m","p","4">>
UrlPort == <<"h","t","t","p",":","/","/","a",":","8","0","8","0","/","v",".","m","p","4">>
UrlEmpty == <<>>

LocAbsolute == <<"h","t","t","p","s",":","/","/","b","/","w">>
LocRooted == <<"/","w">>
LocBare == <<"w">>

HttpsPrefix == <<"h","t","t","p","s">>
HttpScheme == <<"h","t","t","p",":","/","/">>
HttpsScheme == <<"h","t","t","p","s",":","/","/">>
ExtMkv == <<".","m","k","v">>
ExtAvi == <<".","a","v","i">>
ExtFlv == <<".","f","l","v">>
ExtWmv == <<".","w","m","v">>
YouTubeCom == <<"y","o","u","t","u","b","e",".","c","o","m">>
YouTuBe == <<"y","o","u","t","u",".","b","e">>
NullText == <<"n","u","l","l">>
SlashSlash == <<"/","/">>
OctetStreamText == <<"o","c","t","e","t","-","s","t","r","e","a","m">>
GuploaderText == <<"g","u","p","l","o","a","d","e","r">>
CookieSeparator == <<";"," ">>

TypeOctetStream == <<"a","p","p","l","i","c","a","t","i","o","n","/","o","c","t","e","t","-","s","t","r","e","a","m">>
TypeGuploader == <<"a","p","p","l","i","c","a","t","i","o","n","/","x","-","g","u","p","l","o","a","d","e","r","-","c","u","s","t","o","m","e","r","-","c","o","n","t","e","n","t">>
TypeBinaryOctet == <<"b","i","n","a","r","y","/","o","c","t","e","t","-","s","t","r","e","a","m">>

TypeWebm == <<"v","i","d","e","o","/","w","e","b","m">>
TypeVideoMp4 == <<"v","i","d","e","o","/","m","p","4">>
TypeHtml == <<"t","e","x","t","/","h","t","m","l">>

\* a Set-Cookie value, "a=1;x", whose name=value part is "a=1"
SetCookieA == <<"a","=","1",";","x">>
\* a Set-Cookie value without attributes, "b=2"
SetCookieB == <<"b","=","2">>

\* String.prototype.startsWith
StartsWith(s, p) == Len(s) >= Len(p) /\ SubSeq(s, 1, Len(p)) = p

\* a pattern anchored by $ matches the end of the text
EndsWith(s, p) == Len(s) >= Len(p) /\ SubSeq(s, Len(s) - Len(p) + 1, Len(s)) = p

\* String.prototype.includes
Includes(s, p) == \E i \in 1..(Len(s) + 1) : i + Len(p) - 1 <= Len(s) /\ SubSeq(s, i, i + Len(p) - 1) = p

\* the letters the i flag of a pattern folds, for the upper-case letters of the inputs
LowerChar(c) ==
    CASE c = "M" -> "m" [] c = "K" -> "k" [] c = "V" -> "v" [] c = "A" -> "a"
      [] c = "I" -> "i" [] c = "F" -> "f" [] c = "L" -> "l" [] c = "W" -> "w"
      [] OTHER -> c

Lower(s) == [i \in 1..Len(s) |-> LowerChar(s[i])]

\* position of the first c in s, 0 when there is none
IndexOf(s, c) == IF \E i \in 1..Len(s) : s[i] = c THEN CHOOSE i \in 1..Len(s) : s[i] = c /\ \A j \in 1..(i - 1) : s[j] # c ELSE 0

\* a JavaScript condition on a text value: undefined and "" are falsy
Truthy(v) == v # Undefined /\ v # <<>>

\* a value inside a template literal: null prints as "null"
Template(v) == IF v = Undefined THEN NullText ELSE v


-----------------------------------------------------------------------------
(* url.parse, as far as proxyStream reads its result *)

SchemeChars == {"a","b","c","d","e","f","g","h","i","j","k","l","m","n","o","p","q","r","s","t","u","v","w","x","y","z","0","1","2","3","4","5","6","7","8","9",".","+","-"}

\* parsedUrl.protocol: the scheme with its colon, null when the text has none
Protocol(u) ==
    LET i == IndexOf(u, ":")
    IN IF i > 1 /\ \A j \in 1..(i - 1) : LowerChar(u[j]) \in SchemeChars
       THEN Lower(SubSeq(u, 1, i)) ELSE Undefined

\* the text after the scheme
AfterProtocol(u) == IF Protocol(u) = Undefined THEN u ELSE SubSeq(u, IndexOf(u, ":") + 1, Len(u))

\* where the host[:port] part of the text t ends: before the first / ? or #
HostEnd(t) ==
    LET stops == {i \in 1..Len(t) : t[i] \in {"/", "?", "#"}}
    IN IF stops = {} THEN Len(t) ELSE (CHOOSE i \in stops : \A j \in stops : i <= j) - 1

\* parsedUrl.hostname: null unless a scheme and // introduce a host; the port is not part of it
Hostname(u) ==
    LET rest == AfterProtocol(u)
    IN IF Protocol(u) = Undefined \/ ~StartsWith(rest, SlashSlash) THEN Undefined
       ELSE LET t == SubSeq(rest, 3, Len(rest))
                hostport == SubSeq(t, 1, HostEnd(t))
                c == IndexOf(hostport, ":")
            IN IF c = 0 THEN hostport ELSE SubSeq(hostport, 1, c - 1)

\* parsedUrl.port: the digits after the colon of the host part, null when there is none
Port(u) ==
    LET rest == AfterProtocol(u)
    IN IF Protocol(u) = Undefined \/ ~StartsWith(rest, SlashSlash) THEN Undefined
       ELSE LET t == SubSeq(rest, 3, Len(rest))
                hostport == SubSeq(t, 1, HostEnd(t))
                c == IndexOf(hostport, ":")
            IN IF c = 0 \/ c = Len(hostport) THEN Undefined ELSE SubSeq(hostport, c + 1, Len(hostport))

\* getProtocol: the https module for a link that starts with "https", the http module otherwise
getProtocol(link) == IF StartsWith(link, HttpsPrefix) THEN "https" ELSE "http"

-----------------------------------------------------------------------------
(* The router of app.get('/proxy') *)

QueryTrue == <<"t","r","u","e">>
QueryFalse == <<"f","a","l","s","e">>
RangeBytes == <<"b","y","t","e","s","=","0","-","1">>
ContentRangeBytes == <<"b","y","t","e","s"," ","0","-","1","/","9">>
LengthTwo == <<"2">>
EtagValue == <<"e","1">>
DateValue == <<"d","1">>
NoneText == <<"n","o","n","e">>
BytesText == <<"b","y","t","e","s">>
StarText == <<"*">>
CrossOriginText == <<"c","r","o","s","s","-","o","r","i","g","i","n">>
NoCacheText == <<"n","o","-","c","a","c","h","e">>
NoSniffText == <<"n","o","s","n","i","f","f">>
KeepAliveText == <<"k","e","e","p","-","a","l","i","v","e">>

\* the pattern /\.(mkv|avi|flv|wmv)$/i applied to the whole url value
MatchesContainerPattern(videoUrl) ==
    \E e \in {ExtMkv, ExtAvi, ExtFlv, ExtWmv} : EndsWith(Lower(videoUrl), e)

\* needsTranscode without its faststart test
NeedsTranscodeNoFaststart(q) ==
    \/ q.transcode = QueryTrue
    \/ MatchesContainerPattern(q.url)

\* needsTranscode
needsTranscode(q) ==
    \/ q.transcode = QueryTrue
    \/ q.faststart = QueryTrue
    \/ MatchesContainerPattern(q.url)

\* the route with the container test made before the missing-url test
RouteTranscodeFirst(q) ==
    IF needsTranscode(q) THEN "remux"
    ELSE IF ~Truthy(q.url) THEN "rejected"
    ELSE "direct"

\* the way the handler goes: 400 for a missing url, else strategy A (remux) or B (direct)
Route(q) ==
    IF ~Truthy(q.url) THEN "rejected"
    ELSE IF needsTranscode(q) THEN "remux"
    ELSE "direct"

\* the url values, transcode and faststart values and Range values clients send; a header or
\* parameter that is sent has a non-empty value, one that is not sent is Undefined
Urls == {Undefined, UrlEmpty, UrlMp4, UrlMkv, UrlMkvUpper, UrlAvi, UrlFlv, UrlWmv, UrlMkvQuery, UrlYouTube, UrlNotAbsolute, UrlPort}
TranscodeValues == {Undefined, QueryTrue, QueryFalse}
FaststartValues == {Undefined, QueryTrue}
RangeValues == {Undefined, RangeBytes}

\* the client requests: every url value without flags, a request with a flag and no url, and
\* every combination of flags and Range on the .mp4 and .mkv urls
Queries ==
    [url : Urls, transcode : {Undefined}, faststart : {Undefined}, range : {Undefined}]
      \cup [url : {Undefined}, transcode : {QueryTrue}, faststart : {Undefined}, range : {Undefined}]
      \cup [url : {UrlMp4, UrlMkv}, transcode : TranscodeValues, faststart : FaststartValues, range : RangeValues]

-----------------------------------------------------------------------------
(* The rate limiter in front of /proxy *)

\* rateLimit({ windowMs: 1 * 60 * 1000, max: 2000, message: 'Too many requests.' })
WindowMs == 1 * 60 * 1000
RateLimitMax == 2000

\* the clients, by IP: one that sends as fast as it can and one that sends a few requests
HeavyClient == "10.0.0.1"
LightClient == "10.0.0.2"
ClientIps == {HeavyClient, LightClient}

\* how far past the limit the heavy client goes, how many requests the light client sends
\* in a window, and how many windows the clock runs through
MaxOver == 2
MaxLightHits == 2
MaxWindows == 2

\* the clock advances by half a window
TickMs == WindowMs \div 2

\* the hits a client may reach in one window before it pauses
HitCap(ip) == IF ip = HeavyClient THEN RateLimitMax + MaxOver ELSE MaxLightHits

\* a client the store has no record of, and a client the limiter has not seen
NoClient == [totalHits |-> 0, resetTime |-> 0]
NoVerdict == [outcome |-> "none", at |-> 0, previous |-> "none", admitted |-> 0]

\* the heavy client after RateLimitMax requests at time 0: the limiter is either new or has
\* counted these when the request that the handlers follow arrives
BusyClient == [totalHits |-> RateLimitMax, resetTime |-> WindowMs]
BusyVerdict == [outcome |-> "next", at |-> 0, previous |-> "next", admitted |-> RateLimitMax]

\* the client whose request the handlers follow
RequestIp == HeavyClient

\* the store's record of a client at the time t: a record whose window has passed is replaced
CurrentClient(client, t) ==
    IF client.resetTime <= t THEN [totalHits |-> 0, resetTime |-> t + WindowMs] ELSE client

\* an increment that is lost
HitLost(client) == client

\* the store's increment: the client's hits go up by one, in one step of the event loop
Hit(client) == [client EXCEPT !.totalHits = @ + 1]

\* a limiter that throttles on reaching the limit
ThrottledAtLimit(totalHits) == totalHits >= RateLimitMax

\* the limiter's test: the request is throttled when the hits counted exceed max
Throttled(totalHits) == totalHits > RateLimitMax

-----------------------------------------------------------------------------
(* State *)

VARIABLES
    phase,          \* where the request went: "listening", "throttled", "rejected", "remux", "direct"
    req,            \* the client request: req.query.url, .transcode, .faststart and req.headers.range
    res,            \* the client response, as written so far
    clientOpen,     \* the client connection is open (req has not emitted 'close')
    crashed,        \* an exception escaped an event listener and ended the process
    attempt,        \* the attempt argument of the latest proxyStream call
    sessionCookies, \* the cookie jar of the session
    proxyReq,       \* the latest upstream request
    reqState,       \* "none", "waiting", "responded", "aborting" (destroyed, 'error' pending), "failed",
                    \* "timingout" (destroyed on 'timeout', 'error' pending), "timedout",
                    \* "broken" (the connection failed after the response had come)
    nReq,           \* upstream requests issued
    nResp,          \* upstream responses received
    openConns,      \* upstream requests not yet closed
    proxyRes,       \* the latest upstream response
    stream,         \* the body of proxyRes: "none", "unread", "flowing", "aborting", "ended", "errored"
    upBody,         \* chunks of the upstream body not yet piped
    ffmpegCommand,  \* what the handler keeps as ffmpegCommand: "none", "command" or "stream"
    ffmpegProc,     \* the remux process: "none", "running", "exited", "failed", "killed"
    nProc,          \* remux processes started
    produced,       \* chunks the remux process has written
    store,          \* the rate limiter's store: per client IP, the hits counted and when they expire
    now,            \* the clock, in milliseconds
    verdict,        \* per client IP, what the limiter did with its latest request
    jars,           \* concurrent requests: the sessionCookies binding of each scope
    relays,         \* concurrent requests: per request, where its relay session stands
    source,         \* the player: the source prop of VideoPlayer (currentSource of App)
    isYoutubeMode,  \* the player: the embedded player is shown in place of the video element
    retryCount,     \* the player: retryCount.current
    stateError,     \* the player: state.error, undefined for null
    finalUrl,       \* the player: the url given to the video element or the streaming library
    engine,         \* the player: what was given finalUrl: "none", "video", "hls" or "dash"
    media,          \* the player: the video element: "empty", "loading" (or playing), "failed"
    videoError,     \* the player: the code of video.error, 0 for null
    retryTimers,    \* the player: callbacks of onError's setTimeout that have not run yet
    nReload         \* the player: load() calls of those callbacks since the source effect ran

vars == <<phase, req, res, clientOpen, crashed, attempt, sessionCookies, proxyReq, reqState,
          nReq, nResp, openConns, proxyRes, stream, upBody, ffmpegCommand, ffmpegProc, nProc, produced,
          store, now, verdict, jars, relays,
          source, isYoutubeMode, retryCount, stateError, finalUrl, engine, media, videoError,
          retryTimers, nReload>>

directVars == <<attempt, sessionCookies, proxyReq, reqState, nReq, nResp, openConns, proxyRes, stream, upBody>>
remuxVars == <<ffmpegCommand, ffmpegProc, nProc, produced>>
limiterVars == <<store, now, verdict>>
concurrentVars == <<jars, relays>>
playerVars == <<source, isYoutubeMode, retryCount, stateError, finalUrl, engine, media, videoError,
                retryTimers, nReload>>
handlerVars == <<phase, req, res, clientOpen, crashed, directVars, remuxVars>>

NoHeaders ==
    [contentType |-> Undefined, contentLength |-> Undefined, contentRange |-> Undefined,
     etag |-> Undefined, lastModified |-> Undefined, acceptRanges |-> Undefined,
     allowOrigin |-> Undefined, resourcePolicy |-> Undefined, cacheControl |-> Undefined,
     contentTypeOptions |-> Undefined, connection |-> Undefined, location |-> Undefined,
     setCookie |-> Undefined]

\* a response nothing was written to; statusCode is the status line sent, 0 while none was
FreshResponse == [headersSent |-> FALSE, statusCode |-> 0, headers |-> NoHeaders, message |-> "", body |-> <<>>, ended |-> FALSE]

NoQuery == [url |-> Undefined, transcode |-> Undefined, faststart |-> Undefined, range |-> Undefined]
NoUpstreamRequest == [url |-> Undefined, via |-> "none", hostname |-> Undefined, port |-> Undefined, referer |-> Undefined, range |-> Undefined, cookie |-> Undefined]
NoUpstreamResponse ==
    [statusCode |-> 0, location |-> Undefined, setCookie |-> <<>>, contentType |-> Undefined,
     contentLength |-> Undefined, contentRange |-> Undefined, etag |-> Undefined,
     lastModified |-> Undefined, acceptRanges |-> Undefined, body |-> 0]

\* client requests that are handled at the same time, each by its own call of the route handler
ConcurrentRequests == {"first", "second"}

\* where a sessionCookies binding can live: in the call that handles a request, or in the module
ModuleScope == "module"
JarScopes == ConcurrentRequests \cup {ModuleScope}

\* one binding in the module, shared by every call
JarScopeModule(c) == ModuleScope

\* let sessionCookies = [] stands inside the route handler: each call has a binding of its own
JarScope(c) == c

\* redirects followed per session while sessions run side by side
MaxConcurrentHops == 2

\* retry timers of the player that can be pending at once
MaxTimers == 2

\* what each of the concurrent requests asks for
ConcurrentQuery == [NoQuery EXCEPT !.url = UrlMp4]

\* a session that has not begun; received lists the cookie pairs its own responses set
NoRelay == [state |-> "idle", attempt |-> 0, proxyReq |-> NoUpstreamRequest, received |-> <<>>]

-----------------------------------------------------------------------------
(* The player: App (handleLoadUrl, the samples) and VideoPlayer *)

\* PROXY_BASE
ProxyBase == <<"h","t","t","p",":","/","/","l","o","c","a","l","h","o","s","t",":","4","0","0","0","/","p","r","o","x","y">>
\* a YouTube url whose query names a manifest
UrlYouTubeManifest == <<"h","t","t","p","s",":","/","/","y","o","u","t","u",".","b","e","/","x","?","f","=",".","m","3","u","8">>
TypeHls == <<"a","p","p","l","i","c","a","t","i","o","n","/","x","-","m","p","e","g","U","R","L">>
TypeDash == <<"a","p","p","l","i","c","a","t","i","o","n","/","d","a","s","h","+","x","m","l">>
TypeYoutube == <<"y","o","u","t","u","b","e">>
TypeMatroska == <<"v","i","d","e","o","/","x","-","m","a","t","r","o","s","k","a">>
TypeMsvideo == <<"v","i","d","e","o","/","x","-","m","s","v","i","d","e","o">>
ExtM3u8 == <<".","m","3","u","8">>
ExtMpd == <<".","m","p","d">>
ExtWebm == <<".","w","e","b","m">>

\* MediaError codes of the video element
MEDIA_ERR_ABORTED == 1
MEDIA_ERR_NETWORK == 2
MEDIA_ERR_DECODE == 3
MEDIA_ERR_SRC_NOT_SUPPORTED == 4
MediaErrorCodes == {MEDIA_ERR_ABORTED, MEDIA_ERR_NETWORK, MEDIA_ERR_DECODE, MEDIA_ERR_SRC_NOT_SUPPORTED}

\* retryCount.current < 2
MaxRetries == 2

UpperCaseLetters == <<"A","B","C","D","E","F","G","H","I","J","K","L","M","N","O","P","Q","R","S","T","U","V","W","X","Y","Z">>
LowerCaseLetters == <<"a","b","c","d","e","f","g","h","i","j","k","l","m","n","o","p","q","r","s","t","u","v","w","x","y","z">>

\* String.prototype.toLowerCase
toLowerCase(s) ==
    [i \in 1..Len(s) |->
        IF \E k \in 1..Len(UpperCaseLetters) : UpperCaseLetters[k] = s[i]
        THEN LowerCaseLetters[CHOOSE k \in 1..Len(UpperCaseLetters) : UpperCaseLetters[k] = s[i]]
        ELSE s[i]]

\* the characters encodeURIComponent escapes, among those of the urls here, with their codes
EscapedCharacters ==
    [c \in {":", "/", "?", "=", "&", "#", "+", " ", "%", "@", ",", ";", "$"} |->
        CASE c = ":" -> <<"%","3","A">> [] c = "/" -> <<"%","2","F">> [] c = "?" -> <<"%","3","F">>
          [] c = "=" -> <<"%","3","D">> [] c = "&" -> <<"%","2","6">> [] c = "#" -> <<"%","2","3">>
          [] c = "+" -> <<"%","2","B">> [] c = " " -> <<"%","2","0">> [] c = "%" -> <<"%","2","5">>
          [] c = "@" -> <<"%","4","0">> [] c = "," -> <<"%","2","C">> [] c = ";" -> <<"%","3","B">>
          [] c = "$" -> <<"%","2","4">>]

\* encodeURIComponent: letters, digits and - _ . ! ~ * ' ( ) stay, the rest becomes %XX
RECURSIVE encodeURIComponent(_)
encodeURIComponent(s) ==
    IF s = <<>> THEN <<>>
    ELSE (IF Head(s) \in DOMAIN EscapedCharacters THEN EscapedCharacters[Head(s)] ELSE <<Head(s)>>)
             \o encodeURIComponent(Tail(s))

\* detectMimeType of utils.ts: the first of these texts that the lower-cased url contains
detectMimeType(url) ==
    LET lowerUrl == toLowerCase(url)
    IN IF Includes(lowerUrl, ExtM3u8) THEN TypeHls
       ELSE IF Includes(lowerUrl, ExtMpd) THEN TypeDash
       ELSE IF Includes(lowerUrl, YouTubeCom) \/ Includes(lowerUrl, YouTuBe) THEN TypeYoutube
       ELSE IF Includes(lowerUrl, ExtWebm) THEN TypeWebm
       ELSE IF Includes(lowerUrl, ExtMkv) THEN TypeMatroska
       ELSE IF Includes(lowerUrl, ExtAvi) THEN TypeMsvideo
       ELSE IF Includes(lowerUrl, <<"g","o","o","g","l","e","u","s","e","r","c","o","n","t","e","n","t",".","c","o","m">>) THEN TypeVideoMp4
       ELSE TypeVideoMp4

\* SAMPLE_SOURCES of App
SampleHls == [src |-> <<"h","t","t","p","s",":","/","/","t","e","s","t","-","s","t","r","e","a","m","s",".","m","u","x",".","d","e","v","/","x","3","6","x","h","z","z","/","x","3","6","x","h","z","z",".","m","3","u","8">>, type |-> TypeHls, proxyUrl |-> ProxyBase, headers |-> Undefined, drm |-> Undefined]
SampleDash == [src |-> <<"h","t","t","p","s",":","/","/","d","a","s","h",".","a","k","a","m","a","i","z","e","d",".","n","e","t","/","a","k","a","m","a","i","/","b","b","b","_","3","0","f","p","s","/","b","b","b","_","3","0","f","p","s",".","m","p","d">>, type |-> TypeDash, proxyUrl |-> ProxyBase, headers |-> Undefined, drm |-> <<"w","i","d","e","v","i","n","e">>]
SampleYouTube == [src |-> <<"h","t","t","p","s",":","/","/","w","w","w",".","y","o","u","t","u","b","e",".","c","o","m","/","w","a","t","c","h","?","v","=","a","q","z","-","K","E","-","b","p","K","Q">>, type |-> TypeYoutube, proxyUrl |-> Undefined, headers |-> Undefined, drm |-> Undefined]
SAMPLE_SOURCES == {SampleHls, SampleDash, SampleYouTube}

\* what the user types into the url field, and into the Authorization field
InputUrls == {UrlEmpty, UrlNotAbsolute, UrlMp4, UrlMkv, UrlYouTube, UrlYouTubeManifest}
AuthHeaders == {<<>>, <<"t">>}

\* the source handleLoadUrl builds: the detected type, and the proxy unless that type is youtube
CustomSource(inputUrl, useProxy, authHeader) ==
    LET detectedType == detectMimeType(inputUrl)
        shouldProxy == useProxy /\ detectedType # TypeYoutube
    IN [src |-> inputUrl,
        type |-> detectedType,
        proxyUrl |-> IF shouldProxy THEN ProxyBase ELSE Undefined,
        headers |-> IF authHeader # <<>> THEN authHeader ELSE Undefined,
        drm |-> Undefined]

\* source.type || detectMimeType(source.src)
MimeType(s) == IF Truthy(s.type) THEN s.type ELSE detectMimeType(s.src)

\* an effect that goes on to the video element for every type
YoutubeHandlingLeftOut(mimeType) == FALSE

\* if (mimeType === 'youtube'): the effect switches to the embedded player and returns
YoutubeHandling(mimeType) == mimeType = TypeYoutube

\* finalUrl of the effect: the proxy url with the encoded source url, or the source url itself,
\* and the transcode flag for the two container types when a proxy is used
FinalUrl(s, mimeType) ==
    LET base == IF Truthy(s.proxyUrl)
                THEN s.proxyUrl \o <<"?","u","r","l","=">> \o encodeURIComponent(s.src)
                ELSE s.src
    IN IF mimeType \in {TypeMatroska, TypeMsvideo} /\ Truthy(s.proxyUrl)
       THEN base \o <<"&","t","r","a","n","s","c","o","d","e","=","t","r","u","e">> ELSE base

\* the library or element that is given finalUrl
Engine(mimeType) ==
    IF mimeType = TypeHls THEN "hls" ELSE IF mimeType = TypeDash THEN "dash" ELSE "video"

\* the dependency list of the source effect: src, proxyUrl, headers (an object, compared by
\* identity: handleLoadUrl makes a new one each time, the samples have none) and drm; autoPlay
\* is always false in App
DepsChanged(old, new) ==
    \/ old.src # new.src
    \/ old.proxyUrl # new.proxyUrl
    \/ old.headers # Undefined
    \/ new.headers # Undefined
    \/ old.drm # new.drm

\* the source effect of VideoPlayer, run for the source s
SourceEffect(s) ==
    LET mimeType == MimeType(s)
    IN /\ stateError' = Undefined
       /\ retryCount' = 0
       /\ nReload' = 0
       /\ IF YoutubeHandling(mimeType)
          THEN /\ isYoutubeMode' = TRUE
               /\ finalUrl' = Undefined
               /\ engine' = "none"
               /\ media' = "empty"
               /\ videoError' = 0
          ELSE IF isYoutubeMode
          THEN \* the video element is not mounted while the embedded player shows: if (!video) return
               /\ isYoutubeMode' = FALSE
               /\ finalUrl' = Undefined
               /\ engine' = "none"
               /\ media' = "empty"
               /\ videoError' = 0
          ELSE /\ isYoutubeMode' = FALSE
               /\ finalUrl' = FinalUrl(s, mimeType)
               /\ engine' = Engine(mimeType)
               /\ media' = "loading"
               /\ videoError' = 0

\* setCurrentSource(s) and the render that follows: the effect runs when a dependency changed
setCurrentSource(s) ==
    /\ source' = s
    /\ IF DepsChanged(source, s)
       THEN SourceEffect(s) /\ UNCHANGED retryTimers
       ELSE UNCHANGED <<isYoutubeMode, retryCount, stateError, finalUrl, engine, media, videoError,
                        retryTimers, nReload>>
    /\ UNCHANGED <<handlerVars, limiterVars, concurrentVars>>

\* a click on one of the samples
SelectSample(sample) ==
    /\ sample # source
    /\ setCurrentSource(sample)

\* handleLoadUrl: nothing for an empty field or a text that new URL() rejects
handleLoadUrl(inputUrl, useProxy, authHeader) ==
    /\ Truthy(inputUrl)
    /\ Protocol(inputUrl) # Undefined
    /\ setCurrentSource(CustomSource(inputUrl, useProxy, authHeader))

\* onError of the video element, for the error code of target.error: a reload in a second
\* while retryCount < 2 and the code is a network or a source error, the error state otherwise
onError(code) ==
    /\ ~isYoutubeMode
    /\ media = "loading"
    /\ media' = "failed"
    /\ videoError' = code
    /\ IF retryCount < MaxRetries /\ code \in {MEDIA_ERR_NETWORK, MEDIA_ERR_SRC_NOT_SUPPORTED}
       THEN /\ retryTimers < MaxTimers
            /\ retryCount' = retryCount + 1
            /\ retryTimers' = retryTimers + 1
            /\ UNCHANGED stateError
       ELSE /\ stateError' = <<"P","l","a","y","b","a","c","k"," ","p","r","e","v","e","n","t","e","d","."," ","E","n","s","u","r","e"," ","t","h","e"," ","S","e","c","u","r","e"," ","G","a","t","e","w","a","y"," ","i","s"," ","e","n","a","b","l","e","d",".">>
            /\ UNCHANGED <<retryCount, retryTimers>>
    /\ UNCHANGED <<source, isYoutubeMode, finalUrl, engine, nReload>>
    /\ UNCHANGED <<handlerVars, limiterVars, concurrentVars>>

\* the callback of onError's setTimeout: target.load() and target.play() on the video element,
\* whatever source it has by then; nothing cancels the timer
RetryTimer ==
    /\ retryTimers > 0
    /\ retryTimers' = retryTimers - 1
    /\ IF ~isYoutubeMode /\ engine # "none"
       THEN /\ media' = "loading"
            /\ videoError' = 0
            /\ nReload' = nReload + 1
       ELSE UNCHANGED <<media, videoError, nReload>>
    /\ UNCHANGED <<source, isYoutubeMode, retryCount, stateError, finalUrl, engine>>
    /\ UNCHANGED <<handlerVars, limiterVars, concurrentVars>>

Init ==
    /\ phase = "listening"
    /\ req = NoQuery
    /\ res = FreshResponse
    /\ clientOpen = TRUE
    /\ crashed = FALSE
    /\ attempt = 0
    /\ sessionCookies = <<>>
    /\ proxyReq = NoUpstreamRequest
    /\ reqState = "none"
    /\ nReq = 0
    /\ nResp = 0
    /\ openConns = 0
    /\ proxyRes = NoUpstreamResponse
    /\ stream = "none"
    /\ upBody = <<>>
    /\ ffmpegCommand = "none"
    /\ ffmpegProc = "none"
    /\ nProc = 0
    /\ produced = 0
    /\ now = 0
    /\ \/ /\ store = [ip \in ClientIps |-> NoClient]
          /\ verdict = [ip \in ClientIps |-> NoVerdict]
       \/ /\ store = [[ip \in ClientIps |-> NoClient] EXCEPT ![HeavyClient] = BusyClient]
          /\ verdict = [[ip \in ClientIps |-> NoVerdict] EXCEPT ![HeavyClient] = BusyVerdict]
    /\ jars = [scope \in JarScopes |-> <<>>]
    /\ relays = [c \in ConcurrentRequests |-> NoRelay]
    /\ source = SampleHls
    /\ isYoutubeMode = FALSE
    /\ retryCount = 0
    /\ stateError = Undefined
    /\ finalUrl = FinalUrl(SampleHls, MimeType(SampleHls))
    /\ engine = Engine(MimeType(SampleHls))
    /\ media = "loading"
    /\ videoError = 0
    /\ retryTimers = 0
    /\ nReload = 0

\* res.status(code).send(text): Express writes the status, an HTML content type and the text, and ends the response
Send(code, text) ==
    [headersSent |-> TRUE, statusCode |-> code, headers |-> [NoHeaders EXCEPT !.contentType = TypeHtml],
     message |-> text, body |-> <<>>, ended |-> TRUE]

\* an error listener that only logs
SendLeftOut(r, code, text) == r

\* a listener that answers without looking at headersSent
SendAlways(r, code, text) == Send(code, text)

\* if (!res.headersSent) res.status(code).send(text)
SendUnlessSent(r, code, text) == IF ~r.headersSent THEN Send(code, text) ELSE r

-----------------------------------------------------------------------------
(* The direct relay: proxyStream *)

\* a Set-Cookie value kept with its attributes
CookiePairWhole(c) == c

\* c.split(';')[0]: the name=value part of a Set-Cookie value
CookiePair(c) == LET i == IndexOf(c, ";") IN IF i = 0 THEN c ELSE SubSeq(c, 1, i - 1)

\* sessionCookies.join('; ')
RECURSIVE JoinCookies(_)
JoinCookies(jar) ==
    IF Len(jar) = 0 THEN <<>>
    ELSE IF Len(jar) = 1 THEN jar[1]
    ELSE jar[1] \o CookieSeparator \o JoinCookies(Tail(jar))

\* an upstream request built without the client's Range
ForwardedRangeDropped(q) == Undefined

\* the Range header of an upstream request: the client's, when it sent one
ForwardedRange(q) == IF Truthy(q.range) THEN q.range ELSE Undefined

\* the Cookie header of an upstream request: the jar, when it holds something
CookieHeader(jar) == IF Len(jar) > 0 THEN JoinCookies(jar) ELSE Undefined

\* the request protocol.request(...) issues for targetUrl
UpstreamRequest(q, targetUrl, jar) ==
    [url |-> targetUrl,
     via |-> getProtocol(targetUrl),
     hostname |-> Hostname(targetUrl),
     port |-> Port(targetUrl),
     referer |-> Template(Protocol(targetUrl)) \o SlashSlash \o Template(Hostname(targetUrl)) \o <<"/">>,
     range |-> ForwardedRange(q),
     cookie |-> CookieHeader(jar)]

\* the hop cap tested one attempt late
TooManyAttemptsOneLate(att) == att > MaxRedirects + 1

\* the hop cap tested one attempt early
TooManyAttemptsOneEarly(att) == att >= MaxRedirects

\* if (attempt > 10)
TooManyAttempts(att) == att > MaxRedirects

\* proxyStream(targetUrl, attempt) for the client request q with the jar as it stands
proxyStream(q, targetUrl, att, jar) ==
    /\ attempt' = att
    /\ IF TooManyAttempts(att)
       THEN /\ res' = SendUnlessSent(res, 502, "Too many redirects")
            /\ reqState' = IF reqState = "waiting" THEN "responded" ELSE reqState
            /\ UNCHANGED <<proxyReq, nReq, openConns>>
       ELSE /\ proxyReq' = UpstreamRequest(q, targetUrl, jar)
            /\ reqState' = "waiting"
            /\ nReq' = nReq + 1
            /\ openConns' = openConns + 1
            /\ res' = res

\* every response that names a Location followed, whatever its status
IsRedirectAnyStatus(r) == Truthy(r.location)

\* only a 301 followed as a redirect
IsRedirectOnlyMoved(r) == r.statusCode = 301 /\ Truthy(r.location)

\* the condition under which a response is followed as a redirect
IsRedirect(r) == r.statusCode >= 300 /\ r.statusCode < 400 /\ Truthy(r.location)

\* redirectUrl: a Location that starts with / is put after the current protocol and hostname
RedirectUrl(current, location) ==
    IF StartsWith(location, <<"/">>)
    THEN Template(Protocol(current)) \o SlashSlash \o Template(Hostname(current)) \o location
    ELSE location

\* a fixer that rewrites the two exact types only
FixContentTypeExact(ct) ==
    LET contentType == IF Truthy(ct) THEN ct ELSE TypeVideoMp4
    IN IF contentType = TypeOctetStream \/ contentType = TypeGuploader
       THEN TypeVideoMp4 ELSE contentType

\* the MIME type fixer
FixContentType(ct) ==
    LET contentType == IF Truthy(ct) THEN ct ELSE TypeVideoMp4
    IN IF Includes(contentType, OctetStreamText) \/ Includes(contentType, GuploaderText)
       THEN TypeVideoMp4 ELSE contentType

\* a header that is copied when the upstream sent it
Forwarded(v) == IF Truthy(v) THEN v ELSE Undefined

\* response headers that also copy the upstream's Location and Set-Cookie
ResponseHeadersCopyAll(r) ==
    [NoHeaders EXCEPT
        !.contentType = FixContentType(r.contentType),
        !.allowOrigin = StarText,
        !.resourcePolicy = CrossOriginText,
        !.acceptRanges = BytesText,
        !.cacheControl = NoCacheText,
        !.contentTypeOptions = NoSniffText,
        !.contentLength = Forwarded(r.contentLength),
        !.contentRange = Forwarded(r.contentRange),
        !.etag = Forwarded(r.etag),
        !.location = Forwarded(r.location),
        !.setCookie = IF r.setCookie = <<>> THEN Undefined ELSE r.setCookie[1]]

\* response headers that copy the upstream's Accept-Ranges instead of asserting bytes
ResponseHeadersCopied(r) ==
    [NoHeaders EXCEPT
        !.contentType = FixContentType(r.contentType),
        !.allowOrigin = StarText,
        !.resourcePolicy = CrossOriginText,
        !.acceptRanges = Forwarded(r.acceptRanges),
        !.cacheControl = NoCacheText,
        !.contentTypeOptions = NoSniffText,
        !.contentLength = Forwarded(r.contentLength),
        !.contentRange = Forwarded(r.contentRange),
        !.etag = Forwarded(r.etag)]

\* responseHeaders
ResponseHeaders(r) ==
    [NoHeaders EXCEPT
        !.contentType = FixContentType(r.contentType),
        !.allowOrigin = StarText,
        !.resourcePolicy = CrossOriginText,
        !.acceptRanges = BytesText,
        !.cacheControl = NoCacheText,
        !.contentTypeOptions = NoSniffText,
        !.contentLength = Forwarded(r.contentLength),
        !.contentRange = Forwarded(r.contentRange),
        !.etag = Forwarded(r.etag)]

\* a head that answers 200 for every successful upstream status
RelayedStatusFlattened(r) == IF r.statusCode \in 200..299 THEN 200 ELSE r.statusCode

\* res.writeHead(proxyRes.statusCode, responseHeaders)
RelayedStatus(r) == r.statusCode

WriteHead(client, r) ==
    [client EXCEPT !.headersSent = TRUE, !.statusCode = RelayedStatus(r), !.headers = ResponseHeaders(r)]

\* the chunks of a body of n chunks, in order
Chunks(n) == [i \in 1..n |-> i]

\* the responses an upstream hop may give
Locations == {LocAbsolute, LocRooted, LocBare}
SetCookieValues == {<<>>, <<SetCookieA>>, <<SetCookieB>>}
ContentTypes == {Undefined, TypeOctetStream, TypeGuploader, TypeBinaryOctet, TypeWebm}
PlainHeaders ==
    [contentLength |-> Undefined, contentRange |-> Undefined, etag |-> Undefined,
     lastModified |-> Undefined, acceptRanges |-> Undefined]
HeaderProfiles ==
    {PlainHeaders,
     [contentLength |-> LengthTwo, contentRange |-> ContentRangeBytes, etag |-> EtagValue,
      lastModified |-> DateValue, acceptRanges |-> NoneText],
     [contentLength |-> Undefined, contentRange |-> ContentRangeBytes, etag |-> Undefined,
      lastModified |-> Undefined, acceptRanges |-> BytesText],
     [contentLength |-> LengthTwo, contentRange |-> Undefined, etag |-> EtagValue,
      lastModified |-> Undefined, acceptRanges |-> Undefined]}

\* a 302 to the location l that sets the cookies c
Redirect(l, c) ==
    [statusCode |-> 302, location |-> l, setCookie |-> c, contentType |-> Undefined,
     contentLength |-> Undefined, contentRange |-> Undefined, etag |-> Undefined,
     lastModified |-> Undefined, acceptRanges |-> Undefined, body |-> 1]

\* redirects to every kind of Location without cookies, and to the absolute one with each
\* Set-Cookie value
RedirectResponses ==
    {Redirect(l, <<>>) : l \in Locations} \cup {Redirect(LocAbsolute, c) : c \in SetCookieValues}

\* a response with the status s, the content type t, the headers h and a body of b chunks
Response(s, t, h, b) ==
    [statusCode |-> s, location |-> Undefined, setCookie |-> <<>>, contentType |-> t,
     contentLength |-> h.contentLength, contentRange |-> h.contentRange, etag |-> h.etag,
     lastModified |-> h.lastModified, acceptRanges |-> h.acceptRanges, body |-> b]

\* final responses with an empty body or a body of MaxBody chunks: 200 and 206 with every
\* content type, 200 and 206 with every header profile, 404 and a 302 without Location
TerminalResponses ==
    {Response(s, t, PlainHeaders, b) : s \in {200, 206}, t \in ContentTypes, b \in {0, MaxBody}}
      \cup {Response(s, TypeWebm, h, b) : s \in {200, 206}, h \in HeaderProfiles, b \in {0, MaxBody}}
      \cup {Response(s, t, PlainHeaders, b) : s \in {404, 302}, t \in {Undefined, TypeWebm}, b \in {0, MaxBody}}

\* a final response that sets a cookie and names a Location without being a redirect
OddResponses ==
    {[statusCode |-> 200, location |-> LocAbsolute, setCookie |-> <<SetCookieA>>, contentType |-> TypeWebm,
      contentLength |-> Undefined, contentRange |-> Undefined, etag |-> Undefined,
      lastModified |-> Undefined, acceptRanges |-> Undefined, body |-> 1]}

Responses == RedirectResponses \cup TerminalResponses \cup OddResponses

-----------------------------------------------------------------------------
(* The remux pipeline *)

\* a remux head that answers a partial content
RemuxHeadPartial ==
    [FreshResponse EXCEPT
        !.headersSent = TRUE,
        !.statusCode = 206,
        !.headers = [NoHeaders EXCEPT !.contentType = TypeVideoMp4, !.contentRange = ContentRangeBytes]]

\* the head the remux path writes: res.writeHead(200, {...})
RemuxHead ==
    [FreshResponse EXCEPT
        !.headersSent = TRUE,
        !.statusCode = 200,
        !.headers = [NoHeaders EXCEPT !.contentType = TypeVideoMp4, !.connection = KeepAliveText,
                                      !.allowOrigin = StarText, !.resourcePolicy = CrossOriginText]]

\* the value of ffmpeg(videoUrl)...pipe(res, { end: true }): fluent-ffmpeg's pipe() starts
\* the process and returns the stream it was given, not the command
PipeResult == "stream"

\* whether the object kept as ffmpegCommand has a kill method: the command has, a response stream has not
HasKill(object) == object = "command"

\* a limiter that passes every request on
PassesAlways(ip) == TRUE

\* the limiter calls next() for the request it counts now
Passes(ip) == ~Throttled(Hit(CurrentClient(store[ip], now)).totalHits)

\* the limiter counts a request of the client ip and decides on it; verdict keeps the
\* decision, when it was made, the one before it and how many requests of the client were
\* passed on in the window the request was counted in
Count(ip) ==
    LET counted == Hit(CurrentClient(store[ip], now))
        outcome == IF Throttled(counted.totalHits) THEN "throttled" ELSE "next"
        before == IF store[ip].resetTime <= now THEN 0 ELSE verdict[ip].admitted
    IN /\ store' = [store EXCEPT ![ip] = counted]
       /\ verdict' = [verdict EXCEPT ![ip] =
                         [outcome |-> outcome,
                          at |-> now,
                          previous |-> verdict[ip].outcome,
                          admitted |-> IF outcome = "next" THEN before + 1 ELSE before]]

-----------------------------------------------------------------------------
(* The handlers *)

\* a request arrives at /proxy: the limiter (app.use('/proxy', limiter)) counts it and answers
\* 429 itself or passes it to the route handler (app.get('/proxy')), which runs up to its return
Receive(q) ==
    /\ phase = "listening"
    /\ ~crashed
    /\ req' = q
    /\ Count(RequestIp)
    /\ UNCHANGED <<clientOpen, crashed, sessionCookies, nResp, proxyRes, stream, upBody, produced>>
    /\ phase' = IF Passes(RequestIp) THEN Route(q) ELSE "throttled"
    /\ IF ~Passes(RequestIp)
       THEN /\ res' = Send(429, "Too many requests.")
            /\ UNCHANGED <<attempt, proxyReq, reqState, nReq, openConns, ffmpegCommand, ffmpegProc, nProc>>
       ELSE IF Route(q) = "rejected"
       THEN /\ res' = Send(400, "Missing URL")
            /\ UNCHANGED <<attempt, proxyReq, reqState, nReq, openConns, ffmpegCommand, ffmpegProc, nProc>>
       ELSE IF Route(q) = "remux"
       THEN /\ res' = RemuxHead
            /\ ffmpegProc' = "running"
            /\ nProc' = nProc + 1
            /\ ffmpegCommand' = PipeResult
            /\ UNCHANGED <<attempt, proxyReq, reqState, nReq, openConns>>
       ELSE /\ proxyStream(q, q.url, 0, sessionCookies)
            /\ UNCHANGED <<ffmpegCommand, ffmpegProc, nProc>>
    /\ UNCHANGED <<now, concurrentVars, playerVars>>

\* the response callback of protocol.request, for the response r of the upstream
UpstreamResponse(r) ==
    /\ phase = "direct"
    /\ ~crashed
    /\ reqState = "waiting"
    /\ Len(sessionCookies) + Len(r.setCookie) <= MaxCookies
    /\ nResp' = nResp + 1
    /\ proxyRes' = r
    /\ upBody' = Chunks(r.body)
    /\ sessionCookies' = sessionCookies \o [i \in 1..Len(r.setCookie) |-> CookiePair(r.setCookie[i])]
    /\ IF IsRedirect(r)
       THEN /\ proxyStream(req, RedirectUrl(proxyReq.url, r.location), attempt + 1, sessionCookies')
            /\ stream' = "unread"
       ELSE /\ res' = IF ~res.headersSent THEN WriteHead(res, r) ELSE res
            /\ stream' = "flowing"
            /\ reqState' = "responded"
            /\ UNCHANGED <<attempt, proxyReq, nReq, openConns>>
    /\ UNCHANGED <<phase, req, clientOpen, crashed, remuxVars>>
    /\ UNCHANGED <<limiterVars, concurrentVars, playerVars>>

\* a chunk written in front of those before it
PipedInFront(body, chunk) == <<chunk>> \o body

\* what proxyRes.pipe(res) does with the next chunk: it is written after those before it
Piped(body, chunk) == Append(body, chunk)

\* proxyRes.pipe(res): one chunk of the upstream body goes to the client
PipeChunk ==
    /\ phase = "direct"
    /\ ~crashed
    /\ stream = "flowing"
    /\ upBody # <<>>
    /\ ~res.ended
    /\ res' = [res EXCEPT !.body = Piped(res.body, Head(upBody))]
    /\ upBody' = Tail(upBody)
    /\ UNCHANGED <<phase, req, clientOpen, crashed, attempt, sessionCookies, proxyReq, reqState,
                   nReq, nResp, openConns, proxyRes, stream, remuxVars>>
    /\ UNCHANGED <<limiterVars, concurrentVars, playerVars>>

\* proxyRes.pipe(res): the upstream body ended, and pipe ends the response
PipeEnd ==
    /\ phase = "direct"
    /\ ~crashed
    /\ stream = "flowing"
    /\ upBody = <<>>
    /\ stream' = "ended"
    /\ res' = [res EXCEPT !.ended = TRUE]
    /\ openConns' = openConns - 1
    /\ UNCHANGED <<phase, req, clientOpen, crashed, attempt, sessionCookies, proxyReq, reqState,
                   nReq, nResp, proxyRes, upBody, remuxVars>>
    /\ UNCHANGED <<limiterVars, concurrentVars, playerVars>>

\* an error listener of the upstream body that answers with an error status of its own
StreamErrorAnswered ==
    /\ phase = "direct"
    /\ ~crashed
    /\ stream \in {"flowing", "aborting"}
    /\ stream' = "errored"
    /\ res' = [res EXCEPT !.statusCode = 502, !.ended = TRUE]
    /\ openConns' = IF stream = "flowing" THEN openConns - 1 ELSE openConns
    /\ UNCHANGED <<phase, req, clientOpen, crashed, attempt, sessionCookies, proxyReq, reqState,
                   nReq, nResp, proxyRes, upBody, remuxVars>>
    /\ UNCHANGED <<limiterVars, concurrentVars, playerVars>>

\* proxyRes.on('error'): the upstream body failed, or its request was destroyed while it streamed
StreamError ==
    /\ phase = "direct"
    /\ ~crashed
    /\ stream \in {"flowing", "aborting"}
    /\ stream' = "errored"
    /\ res' = [res EXCEPT !.ended = TRUE]
    /\ openConns' = IF stream = "flowing" THEN openConns - 1 ELSE openConns
    /\ UNCHANGED <<phase, req, clientOpen, crashed, attempt, sessionCookies, proxyReq, reqState,
                   nReq, nResp, proxyRes, upBody, remuxVars>>
    /\ UNCHANGED <<limiterVars, concurrentVars, playerVars>>

\* proxyReq.on('error'): the upstream connection failed before a response, or the request was
\* destroyed before one, or the connection failed while the response streamed (the socket's
\* error is emitted on the request, and the response emits its own 'error' after it)
RequestError ==
    /\ phase = "direct"
    /\ ~crashed
    /\ \/ reqState \in {"waiting", "aborting", "timingout"}
       \/ reqState = "responded" /\ stream = "flowing"
    /\ reqState' = IF reqState = "timingout" THEN "timedout"
                   ELSE IF reqState = "responded" THEN "broken"
                   ELSE "failed"
    /\ stream' = IF reqState = "responded" THEN "aborting" ELSE stream
    /\ res' = SendUnlessSent(res, 502, "Bad Gateway")
    /\ openConns' = IF reqState \in {"waiting", "responded"} THEN openConns - 1 ELSE openConns
    /\ UNCHANGED <<phase, req, clientOpen, crashed, attempt, sessionCookies, proxyReq,
                   nReq, nResp, proxyRes, upBody, remuxVars>>
    /\ UNCHANGED <<limiterVars, concurrentVars, playerVars>>

\* proxyReq.on('timeout'): proxyReq.destroy(), then 504 unless the head was sent. The request
\* options set no timeout, so the event comes only when the runtime's agent has a socket
\* timeout of its own: it may come while the request waits or while the response streams,
\* and nothing makes it come.
Timeout ==
    /\ phase = "direct"
    /\ ~crashed
    /\ \/ reqState = "waiting"
       \/ reqState = "responded" /\ stream = "flowing"
    /\ reqState' = IF reqState = "waiting" THEN "timingout" ELSE reqState
    /\ stream' = IF reqState = "responded" THEN "aborting" ELSE stream
    /\ res' = SendUnlessSent(res, 504, "Gateway Timeout")
    /\ openConns' = openConns - 1
    /\ UNCHANGED <<phase, req, clientOpen, crashed, attempt, sessionCookies, proxyReq,
                   nReq, nResp, proxyRes, upBody, remuxVars>>
    /\ UNCHANGED <<limiterVars, concurrentVars, playerVars>>

\* a close listener that leaves the request alone
DestroyedRequestKept(state) == state

\* proxyReq.destroy() in each hop's req.on('close') listener
DestroyedRequest(state) == IF state = "waiting" THEN "aborting" ELSE state
DestroyedStream(state) == IF state = "flowing" THEN "aborting" ELSE state

\* req.on('close'): the client connection closed
ClientClose ==
    /\ phase # "listening"
    /\ ~crashed
    /\ clientOpen
    /\ clientOpen' = FALSE
    /\ IF phase = "direct"
       THEN /\ reqState' = DestroyedRequest(reqState)
            /\ stream' = DestroyedStream(stream)
            /\ openConns' = 0
            /\ UNCHANGED <<crashed, ffmpegProc>>
       ELSE IF phase = "remux"
       THEN /\ IF HasKill(ffmpegCommand)
               THEN /\ ffmpegProc' = IF ffmpegProc = "running" THEN "killed" ELSE ffmpegProc
                    /\ crashed' = FALSE
               ELSE /\ crashed' = TRUE
                    /\ ffmpegProc' = ffmpegProc
            /\ UNCHANGED <<reqState, stream, openConns>>
       ELSE UNCHANGED <<crashed, ffmpegProc, reqState, stream, openConns>>
    /\ UNCHANGED <<phase, req, res, attempt, sessionCookies, proxyReq, nReq, nResp, proxyRes, upBody,
                   ffmpegCommand, nProc, produced>>
    /\ UNCHANGED <<limiterVars, concurrentVars, playerVars>>

\* the remux process writes a chunk, which its stdout pipe writes to the response
FfmpegData ==
    /\ phase = "remux"
    /\ ~crashed
    /\ ffmpegProc = "running"
    /\ produced < MaxBody
    /\ produced' = produced + 1
    /\ res' = [res EXCEPT !.body = Piped(res.body, produced + 1)]
    /\ UNCHANGED <<phase, req, clientOpen, crashed, directVars, ffmpegCommand, ffmpegProc, nProc>>
    /\ UNCHANGED <<limiterVars, concurrentVars, playerVars>>

\* a remux process whose end leaves the client response open
FfmpegExitLeftOpen(how) ==
    /\ phase = "remux"
    /\ ffmpegProc = "running"
    /\ ffmpegProc' = how
    /\ res' = res
    /\ UNCHANGED <<phase, req, clientOpen, crashed, directVars, ffmpegCommand, nProc, produced>>
    /\ UNCHANGED <<limiterVars, concurrentVars, playerVars>>

\* the remux process ends, by itself or on a failure; the end of its stdout ends the response
\* (pipe option end: true) while the gateway is there to see it
FfmpegExit(how) ==
    /\ phase = "remux"
    /\ ffmpegProc = "running"
    /\ ffmpegProc' = how
    /\ res' = IF crashed THEN res ELSE [res EXCEPT !.ended = TRUE]
    /\ UNCHANGED <<phase, req, clientOpen, crashed, directVars, ffmpegCommand, nProc, produced>>
    /\ UNCHANGED <<limiterVars, concurrentVars, playerVars>>

Next ==
    \/ \E q \in Queries : Receive(q)
    \/ \E r \in Responses : UpstreamResponse(r)
    \/ PipeChunk
    \/ PipeEnd
    \/ StreamError
    \/ RequestError
    \/ Timeout
    \/ ClientClose
    \/ FfmpegData
    \/ \E how \in {"exited", "failed"} : FfmpegExit(how)

Spec == Init /\ [][Next]_vars

-----------------------------------------------------------------------------
(* Relay sessions side by side *)

\* the route handler is called for the request c: a new jar, then proxyStream(videoUrl)
Accept(c) ==
    /\ relays[c].state = "idle"
    /\ jars' = [jars EXCEPT ![JarScope(c)] = <<>>]
    /\ relays' = [relays EXCEPT ![c] =
                     [state |-> "waiting", attempt |-> 0,
                      proxyReq |-> UpstreamRequest(ConcurrentQuery, ConcurrentQuery.url, jars'[JarScope(c)]),
                      received |-> <<>>]]
    /\ UNCHANGED <<handlerVars, limiterVars, playerVars>>

\* the response callback of the session of c: cookies are captured, a redirect is followed
\* with proxyStream(redirectUrl, attempt + 1), any other response ends the session
Answer(c, r) ==
    /\ relays[c].state = "waiting"
    /\ Len(jars[JarScope(c)]) + Len(r.setCookie) <= MaxCookies
    /\ IsRedirect(r) => relays[c].attempt < MaxConcurrentHops
    /\ LET pairs == [i \in 1..Len(r.setCookie) |-> CookiePair(r.setCookie[i])]
           jar == jars[JarScope(c)] \o pairs
       IN /\ jars' = [jars EXCEPT ![JarScope(c)] = jar]
          /\ relays' = [relays EXCEPT ![c] =
                IF IsRedirect(r) /\ ~TooManyAttempts(relays[c].attempt + 1)
                THEN [state |-> "waiting", attempt |-> relays[c].attempt + 1,
                      proxyReq |-> UpstreamRequest(ConcurrentQuery, RedirectUrl(relays[c].proxyReq.url, r.location), jar),
                      received |-> relays[c].received \o pairs]
                ELSE [relays[c] EXCEPT !.state = "done", !.received = @ \o pairs]]
    /\ UNCHANGED <<handlerVars, limiterVars, playerVars>>

ConcurrentNext ==
    \/ \E c \in ConcurrentRequests : Accept(c)
    \/ \E c \in ConcurrentRequests, r \in Responses : Answer(c, r)

ConcurrentSpec == Init /\ [][ConcurrentNext]_vars

-----------------------------------------------------------------------------
(* The rate limiter's steps *)

\* app.use('/proxy', limiter): the limiter counts a request of the client ip and either
\* passes it on (next) or answers 429 'Too many requests.'
Limit(ip) ==
    /\ store[ip].totalHits < HitCap(ip)
    /\ Count(ip)
    /\ UNCHANGED <<now, handlerVars, concurrentVars, playerVars>>

\* time passes
Tick ==
    /\ now < MaxWindows * WindowMs
    /\ now' = now + TickMs
    /\ UNCHANGED <<store, verdict, handlerVars, concurrentVars, playerVars>>

LimiterNext ==
    \/ \E ip \in ClientIps : Limit(ip)
    \/ Tick

LimiterSpec == Init /\ [][LimiterNext]_vars

\* the steps of the player: the user picks sources, the video element fails, timers run
PlayerNext ==
    \/ \E sample \in SAMPLE_SOURCES : SelectSample(sample)
    \/ \E inputUrl \in InputUrls, useProxy \in BOOLEAN, authHeader \in AuthHeaders :
           handleLoadUrl(inputUrl, useProxy, authHeader)
    \/ \E code \in MediaErrorCodes : onError(code)
    \/ RetryTimer

PlayerSpec == Init /\ [][PlayerNext]_vars


\* C16: with the limit of RateLimitMax requests per window per client IP, a request of a
\* client is admitted when fewer than RateLimitMax requests of that client were counted in
\* the window and throttled otherwise (so the first RateLimitMax are admitted and the next
\* one is throttled); a request made a window or more after a throttled one is admitted; and
\* a request of one client changes neither the count nor the verdict of another.
C16_PerClientWindow ==
    [][\A ip \in ClientIps :
          store'[ip] # store[ip] =>
              LET earlier == IF now < store[ip].resetTime THEN store[ip].totalHits ELSE 0
              IN /\ verdict'[ip].at = now
                 /\ verdict'[ip].outcome = IF earlier < RateLimitMax THEN "next" ELSE "throttled"
                 /\ (verdict[ip].outcome = "throttled" /\ now >= verdict[ip].at + WindowMs
                        => verdict'[ip].outcome = "next")
                 /\ \A other \in ClientIps \ {ip} :
                        store'[other] = store[other] /\ verdict'[other] = verdict[other]]_vars

\* the heavy client was throttled and then admitted again, a window after it began, while
\* the light client was admitted
C16_Witness ==
    /\ verdict[HeavyClient].outcome = "next"
    /\ verdict[HeavyClient].previous = "throttled"
    /\ verdict[HeavyClient].at >= WindowMs
    /\ verdict[LightClient].outcome = "next"

-----------------------------------------------------------------------------
(* Properties of the direct relay *)

\* a response that was not followed as a redirect has arrived
TerminalReceived == stream \in {"flowing", "aborting", "ended", "errored"}

\* the number N of 3xx responses with a Location received so far
RedirectsSeen == IF TerminalReceived THEN nResp - 1 ELSE nResp

\* the upstream response just handled is a 3xx with a Location header
GotRedirect(r) == r.statusCode \in 300..399 /\ r.location # Undefined /\ r.location # <<>>

\* s is a prefix of t
IsPrefix(s, t) == Len(s) <= Len(t) /\ SubSeq(t, 1, Len(s)) = s

C2_RedirectsStayInside ==
    [][(nResp' = nResp + 1 /\ GotRedirect(proxyRes')) =>
          /\ res'.body = res.body
          /\ res'.headers.location = Undefined
          /\ res'.statusCode \notin 300..399
          /\ \/ res' = res
             \/ attempt' > MaxRedirects /\ res' = Send(502, "Too many redirects")
          /\ (attempt' <= MaxRedirects =>
                /\ nReq' = nReq + 1
                /\ reqState' = "waiting"
                /\ proxyReq'.url = IF proxyRes'.location[1] = "/"
                                   THEN Template(Protocol(proxyReq.url)) \o SlashSlash \o Template(Hostname(proxyReq.url)) \o proxyRes'.location
                                   ELSE proxyRes'.location)]_vars

\* a redirect with a body was followed and the client has received nothing
C2_Witness ==
    /\ phase = "direct"
    /\ stream = "unread"
    /\ GotRedirect(proxyRes)
    /\ proxyRes.body > 0
    /\ attempt = 2
    /\ reqState = "waiting"
    /\ res = FreshResponse

-----------------------------------------------------------------------------
(* Properties of the router *)

\* the url value ends in .mkv, .avi, .flv or .wmv, in any letter case
HasContainerExtension(u) ==
    /\ Len(u) >= 4
    /\ Lower(SubSeq(u, Len(u) - 3, Len(u))) \in {ExtMkv, ExtAvi, ExtFlv, ExtWmv}

\* the request was routed: it had a url
Routed == phase \in {"remux", "direct"}

\* C5 as stated: remux exactly when transcode=true or the extension is mkv, avi, flv or wmv;
\* a .mp4 url without transcode=true goes to the direct path.
C5_AsStated ==
    Routed =>
        /\ (phase = "remux" <=> (req.transcode = QueryTrue \/ HasContainerExtension(req.url)))
        /\ (req.url = UrlMp4 /\ req.transcode # QueryTrue => phase = "direct")

\* C5 as amended: a request with a url is remuxed exactly when transcode=true, faststart=true
\* or its url value ends in .mkv, .avi, .flv or .wmv; it goes to the direct path otherwise.
\* A .mkv url is remuxed whatever the flags; a .mp4 url with neither flag goes direct.
C5_RouterChoice ==
    Routed =>
        /\ (phase = "remux" <=>
                (req.transcode = QueryTrue \/ req.faststart = QueryTrue \/ HasContainerExtension(req.url)))
        /\ (req.url = UrlMkv => phase = "remux")
        /\ (req.url = UrlMp4 /\ req.transcode # QueryTrue /\ req.faststart # QueryTrue => phase = "direct")

\* a .mp4 url with faststart=true and without transcode=true is remuxed
C5_Witness ==
    /\ phase = "remux"
    /\ req.url = UrlMp4
    /\ req.faststart = QueryTrue
    /\ req.transcode # QueryTrue
    /\ nProc = 1

\* C6: a request without a url parameter is answered 400, with no upstream request and no
\* remux process.
C6_MissingUrl ==
    phase \notin {"listening", "throttled"} /\ req.url = Undefined =>
        /\ phase = "rejected"
        /\ res.statusCode = 400
        /\ res.ended
        /\ nReq = 0
        /\ nProc = 0
        /\ ffmpegProc = "none"

\* a request with transcode=true and no url was answered 400
C6_Witness ==
    /\ phase = "rejected"
    /\ req.url = Undefined
    /\ req.transcode = QueryTrue
    /\ res.statusCode = 400
    /\ nReq = 0
    /\ nProc = 0

\* the url value is an absolute http or https URL: the scheme, // and a host
IsAbsoluteHttpUrl(u) ==
    \E scheme \in {HttpScheme, HttpsScheme} :
        /\ Len(u) > Len(scheme)
        /\ Lower(SubSeq(u, 1, Len(scheme))) = scheme
        /\ u[Len(scheme) + 1] \notin {"/", "?", "#", ":"}

\* C7: a request whose url value is no absolute http/https URL is answered 400, with no
\* upstream request and no remux process.
C7_InvalidUrl ==
    phase \notin {"listening", "throttled"} /\ req.url # Undefined /\ ~IsAbsoluteHttpUrl(req.url) =>
        /\ res.statusCode = 400
        /\ nReq = 0
        /\ nProc = 0

\* the url value names YouTube
IsYouTubeUrl(u) == u # Undefined /\ (Includes(u, YouTubeCom) \/ Includes(u, YouTuBe))

\* C8: a request for a YouTube url is answered 400, with no upstream request and no remux
\* process.
C8_YouTubeRefused ==
    phase \notin {"listening", "throttled"} /\ IsYouTubeUrl(req.url) =>
        /\ res.statusCode = 400
        /\ nReq = 0
        /\ nProc = 0

-----------------------------------------------------------------------------
(* Properties of cancellation *)

\* C9: a remuxed request has exactly one remux process, and once its client connection has
\* closed that process is not running.
C9_NoProcessOutlivesClient ==
    phase = "remux" =>
        /\ nProc = 1
        /\ (~clientOpen => ffmpegProc # "running")

\* C10: when the client of a direct relay disconnects, no upstream request stays in flight
\* (the waiting request and the streaming response are destroyed, no connection stays open),
\* and once the client is gone no upstream request is issued.
C10_DisconnectStopsUpstream ==
    [][/\ (phase = "direct" /\ clientOpen /\ ~clientOpen' =>
              /\ reqState' # "waiting"
              /\ stream' # "flowing"
              /\ openConns' = 0
              /\ nReq' = nReq)
       /\ (phase = "direct" /\ ~clientOpen =>
              /\ nReq' = nReq
              /\ reqState' # "waiting"
              /\ stream' # "flowing"
              /\ res'.body = res.body)]_vars

\* the client left while a hop after a redirect waited for its response
C10_Witness ==
    /\ phase = "direct"
    /\ ~clientOpen
    /\ attempt >= 1
    /\ reqState = "aborting"
    /\ openConns = 0

-----------------------------------------------------------------------------
(* Properties of the response head *)

\* C11: every response on the remux path has status 200 and Content-Type video/mp4 whatever
\* Range header the client sent: its status is never 206 and it carries no Content-Range.
C11_RemuxHeadFixed ==
    phase = "remux" =>
        /\ res.headersSent
        /\ res.statusCode = 200
        /\ res.statusCode # 206
        /\ res.headers.contentType = TypeVideoMp4
        /\ res.headers.contentRange = Undefined

\* a remuxed request that carried a Range header has received output
C11_Witness ==
    /\ phase = "remux"
    /\ req.range = RangeBytes
    /\ produced >= 1
    /\ res.statusCode = 200

\* the Content-Type the client was sent for the terminal upstream response
RelayedContentType == res.headers.contentType

\* C12 as stated: application/octet-stream, the upload type and a missing Content-Type are
\* returned as video/mp4, and every other Content-Type is forwarded unchanged.
C12_AsStated ==
    phase = "direct" /\ TerminalReceived =>
        RelayedContentType =
            IF proxyRes.contentType \in {Undefined, TypeOctetStream, TypeGuploader}
            THEN TypeVideoMp4
            ELSE proxyRes.contentType

\* C12: on the direct path a terminal upstream response whose Content-Type contains
\* octet-stream or guploader, or that has no Content-Type, is returned as video/mp4, and
\* every other Content-Type is forwarded unchanged.
C12_ContentTypeFixed ==
    phase = "direct" /\ TerminalReceived =>
        /\ (proxyRes.contentType = Undefined => RelayedContentType = TypeVideoMp4)
        /\ (Includes(proxyRes.contentType, OctetStreamText) => RelayedContentType = TypeVideoMp4)
        /\ (Includes(proxyRes.contentType, GuploaderText) => RelayedContentType = TypeVideoMp4)
        /\ (/\ proxyRes.contentType # Undefined
            /\ ~Includes(proxyRes.contentType, OctetStreamText)
            /\ ~Includes(proxyRes.contentType, GuploaderText)
            => RelayedContentType = proxyRes.contentType)

\* a binary/octet-stream response was relayed as video/mp4
C12_Witness ==
    /\ phase = "direct"
    /\ TerminalReceived
    /\ proxyRes.contentType = TypeBinaryOctet
    /\ RelayedContentType = TypeVideoMp4
    /\ res.body # <<>>

C14_HeadersForwarded ==
    phase = "direct" /\ TerminalReceived =>
        /\ res.headers.contentLength = proxyRes.contentLength
        /\ res.headers.contentRange = proxyRes.contentRange
        /\ res.headers.etag = proxyRes.etag
        /\ res.headers.lastModified = proxyRes.lastModified

\* C15: every response relayed on the direct path carries Accept-Ranges: bytes,
\* Access-Control-Allow-Origin: * and Cross-Origin-Resource-Policy: cross-origin, whether or
\* not the upstream sent Accept-Ranges and whatever the upstream status.
C15_PlaybackHeaders ==
    phase = "direct" /\ TerminalReceived =>
        /\ res.headers.acceptRanges = BytesText
        /\ res.headers.allowOrigin = StarText
        /\ res.headers.resourcePolicy = CrossOriginText

\* a response whose upstream said Accept-Ranges: none was relayed, and so was a 404 without
\* Accept-Ranges
C15_Witness ==
    /\ phase = "direct"
    /\ TerminalReceived
    /\ res.headers.acceptRanges = BytesText
    /\ \/ proxyRes.acceptRanges = NoneText /\ proxyRes.statusCode = 206
       \/ proxyRes.acceptRanges = Undefined /\ proxyRes.statusCode = 404

-----------------------------------------------------------------------------
(* Properties of upstream failures *)

\* C17: on the direct path, when the upstream connection has failed before any response
\* headers were received, on the first hop or on a hop after a redirect, the client is
\* answered 502 and has received no byte of the resource.
C17_ConnectionFailure ==
    phase = "direct" /\ reqState = "failed" =>
        /\ res.headersSent
        /\ res.statusCode = 502
        /\ res.ended
        /\ res.body = <<>>

\* the connection of a hop after a redirect failed while the client was there
C17_Witness ==
    /\ phase = "direct"
    /\ reqState = "failed"
    /\ clientOpen
    /\ attempt >= 1
    /\ res.statusCode = 502
    /\ res.message = "Bad Gateway"

-----------------------------------------------------------------------------
(* Termination of a direct relay *)

\* the steps the gateway takes by itself once their event is there: data that arrived is
\* piped on, and a destroyed request or response emits its 'error'. Whether and when an
\* upstream answers or fails is the upstream's choice, and protocol.request is given no
\* timeout.
FairSpec ==
    /\ Spec
    /\ WF_vars(PipeChunk)
    /\ WF_vars(PipeEnd)
    /\ WF_vars(reqState \in {"aborting", "timingout"} /\ RequestError)
    /\ WF_vars(stream = "aborting" /\ StreamError)

\* C18: every request on the direct path eventually reaches a terminal outcome, a relayed
\* response or a 502 or a 504 written to the client, without the client having to
\* disconnect: an upstream that accepts the connection and never sends response headers is
\* given up after a fixed timeout and the client is answered 504.
C18_EventualOutcome == [](phase = "direct" => <>(res.headersSent \/ ~clientOpen))

-----------------------------------------------------------------------------
(* Properties of remux failures *)

\* C20: on the remux path, when the remux process has failed before any output byte was
\* written to the client, the client has received a gateway error status and not a 200.
C20_RemuxFailureStatus ==
    phase = "remux" /\ ffmpegProc = "failed" /\ produced = 0 =>
        /\ res.statusCode # 200
        /\ res.statusCode \in 500..599

-----------------------------------------------------------------------------
(* Properties of the relay session *)

\* C21: within one relay session the hop counter starts at 0, increases by exactly 1 on
\* each followed redirect and on nothing else (it never decreases and no two hops have the
\* same value), and it stays at most MaxRedirects + 1, with at most MaxRedirects + 1
\* upstream requests issued, however the session ends.
C21_HopCounter ==
    [][phase' = "direct" =>
          /\ (phase = "listening" => attempt' = 0)
          /\ (phase = "direct" =>
                 attempt' = IF nResp' = nResp + 1 /\ GotRedirect(proxyRes') THEN attempt + 1 ELSE attempt)
          /\ (nReq' # nReq => nReq' = attempt' + 1)
          /\ attempt' <= MaxRedirects + 1
          /\ nReq' <= MaxRedirects + 1]_vars

\* the hop with the last counter value that is still requested was relayed
C21_Witness ==
    /\ phase = "direct"
    /\ attempt = MaxRedirects
    /\ nReq = MaxRedirects + 1
    /\ TerminalReceived
    /\ res.ended

\* the name=value part of a Set-Cookie value: what stands before its first ";"
NameValuePart(c) ==
    IF \E i \in 1..Len(c) : c[i] = ";"
    THEN SubSeq(c, 1, (CHOOSE i \in 1..Len(c) : c[i] = ";" /\ \A j \in 1..(i - 1) : c[j] # ";") - 1)
    ELSE c

\* the Cookie header that carries the pairs in their order, "; " between them
RECURSIVE CookieText(_)
CookieText(pairs) ==
    IF pairs = <<>> THEN <<>>
    ELSE IF Len(pairs) = 1 THEN pairs[1]
    ELSE CookieText(SubSeq(pairs, 1, Len(pairs) - 1)) \o <<";", " ">> \o pairs[Len(pairs)]

\* C22: within one relay session the jar grows by the name=value part of every Set-Cookie
\* of every response, in order of receipt, and nothing is ever dropped from it; the upstream
\* request of each hop carries the jar of the hops before it as its Cookie header, and no
\* Cookie header when nothing was received.
C22_CookieJar ==
    [][phase' = "direct" =>
          /\ (phase = "listening" => sessionCookies' = <<>>)
          /\ (phase = "direct" =>
                 sessionCookies' =
                     IF nResp' = nResp + 1
                     THEN sessionCookies \o [i \in 1..Len(proxyRes'.setCookie) |-> NameValuePart(proxyRes'.setCookie[i])]
                     ELSE sessionCookies)
          /\ (nReq' # nReq =>
                 proxyReq'.cookie = IF sessionCookies' = <<>> THEN Undefined ELSE CookieText(sessionCookies'))]_vars

\* the third hop was requested with the cookies of the first two, in the order received
C22_Witness ==
    /\ phase = "direct"
    /\ attempt = 2
    /\ sessionCookies = <<NameValuePart(SetCookieA), SetCookieB>>
    /\ proxyReq.cookie = <<"a", "=", "1", ";", " ", "b", "=", "2">>

\* C23: relay sessions of concurrent client requests share no state. A step of one session
\* leaves the hop counter, the current target and the jar of every other session as they
\* were, and under every interleaving the Cookie header of a session's upstream request is
\* made of the cookies its own responses set and of no other.
C23_SessionsIsolated ==
    [][\A c \in ConcurrentRequests :
          /\ (relays'[c] # relays[c] =>
                 \A other \in ConcurrentRequests \ {c} :
                     /\ relays'[other] = relays[other]
                     /\ jars'[JarScope(other)] = jars[JarScope(other)])
          /\ (relays'[c].state = "waiting" =>
                 relays'[c].proxyReq.cookie =
                     IF relays'[c].received = <<>> THEN Undefined ELSE CookieText(relays'[c].received))]_vars

\* two sessions wait for their second hop, each with the cookie its own first hop set
C23_Witness ==
    /\ relays["first"].state = "waiting"
    /\ relays["second"].state = "waiting"
    /\ relays["first"].attempt = 1
    /\ relays["second"].attempt = 1
    /\ relays["first"].proxyReq.cookie = <<"a", "=", "1">>
    /\ relays["second"].proxyReq.cookie = <<"b", "=", "2">>

\* C24: on a redirect whose Location is a relative reference, whether or not it begins with
\* "/", the next hop is requested at the scheme and hostname of the current hop, with the
\* path taken from Location; an absolute Location is followed as given.
C24_RelativeLocation ==
    [][phase = "direct" /\ nResp' = nResp + 1 /\ nReq' = nReq + 1 =>
          IF IsAbsoluteHttpUrl(proxyRes'.location)
          THEN proxyReq'.url = proxyRes'.location
          ELSE /\ proxyReq'.via = proxyReq.via
               /\ proxyReq'.hostname = proxyReq.hostname
               /\ EndsWith(proxyReq'.url, proxyRes'.location)]_vars

-----------------------------------------------------------------------------
(* Properties of failures in mid-stream *)

\* C25: when the upstream body fails after the head was sent to the client, the client
\* response is ended as it stands: status, headers and the body written so far are not
\* changed, no error status is written, and no upstream request is issued then or later.
C25_StreamFailure ==
    [][/\ (phase = "direct" /\ stream = "flowing" /\ stream' = "errored" =>
              /\ res.headersSent
              /\ res' = [res EXCEPT !.ended = TRUE]
              /\ nReq' = nReq)
       /\ (phase = "direct" /\ stream = "errored" =>
              /\ res' = res
              /\ nReq' = nReq
              /\ stream' = "errored")]_vars

\* the upstream body of a 206 failed after its first chunk had gone to the connected client
C25_Witness ==
    /\ phase = "direct"
    /\ stream = "errored"
    /\ clientOpen
    /\ res.statusCode = 206
    /\ res.ended
    /\ Len(res.body) = 1
    /\ upBody # <<>>

\* C26: on the remux path, when the remux process has failed after output went to the
\* client, the response of a client that is still connected is ended with the 200 head and
\* the chunks written so far, and no second remux process was started for the request.
C26_RemuxFailureMidStream ==
    phase = "remux" /\ ffmpegProc = "failed" /\ produced >= 1 =>
        /\ nProc = 1
        /\ res.statusCode = 200
        /\ res.body = Chunks(produced)
        /\ (clientOpen => res.ended)

\* the remux process failed after its first chunk, with the client connected
C26_Witness ==
    /\ phase = "remux"
    /\ ffmpegProc = "failed"
    /\ produced = 1
    /\ clientOpen
    /\ res.ended

-----------------------------------------------------------------------------
(* Properties of the policy layer *)

C28_ThrottledBeforeRouter ==
    phase # "listening" /\ verdict[RequestIp].outcome = "throttled" =>
        /\ phase = "throttled"
        /\ res.statusCode = 429
        /\ res.ended
        /\ res.body = <<>>
        /\ nReq = 0
        /\ reqState = "none"
        /\ nProc = 0
        /\ ffmpegProc = "none"

\* request RateLimitMax + 1 of a client asked for a remux and was throttled
C28_Witness ==
    /\ phase = "throttled"
    /\ store[RequestIp].totalHits = RateLimitMax + 1
    /\ req.url = UrlMkv
    /\ req.range = RangeBytes
    /\ res.statusCode = 429
    /\ nProc = 0

\* C29: the head of a direct-path response is built from a fixed list of headers: no
\* Set-Cookie and no Location received from any upstream hop is sent to the client.
C29_CookiesStayInside ==
    phase = "direct" =>
        /\ res.headers.setCookie = Undefined
        /\ res.headers.location = Undefined

\* a response that sets a cookie and names a Location was relayed, after a hop that had set
\* a cookie too
C29_Witness ==
    /\ phase = "direct"
    /\ TerminalReceived
    /\ res.statusCode = 200
    /\ proxyRes.setCookie # <<>>
    /\ proxyRes.location # Undefined
    /\ Len(sessionCookies) = 2
    /\ res.body # <<>>

\* the url value up to its query string or fragment
UrlPath(u) ==
    IF \E i \in 1..Len(u) : u[i] \in {"?", "#"}
    THEN SubSeq(u, 1, (CHOOSE i \in 1..Len(u) : u[i] \in {"?", "#"} /\ \A j \in 1..(i - 1) : u[j] \notin {"?", "#"}) - 1)
    ELSE u

\* C30: a url whose path ends in .mkv, .avi, .flv or .wmv, in any letter case, is routed to
\* the remux path, also when a query string or fragment follows the path.
C30_ExtensionOfPath ==
    Routed /\ HasContainerExtension(UrlPath(req.url)) => phase = "remux"

-----------------------------------------------------------------------------
(* Properties of the response head *)

\* C31: for every client request and every interleaving of upstream-response, upstream-error,
\* upstream-timeout and client-close events, the status line and headers are written to the
\* client at most once: an event that arrives after a status was written (such as the error
\* raised by destroying the request on timeout) never writes a second status.
C31_HeadWrittenOnce ==
    [][res.headersSent =>
          /\ res'.headersSent
          /\ res'.statusCode = res.statusCode
          /\ res'.headers = res.headers
          /\ res'.message = res.message]_vars

\* the request timed out before a response, 504 was written, and the error raised by
\* destroying the request has arrived
C31_Witness ==
    /\ phase = "direct"
    /\ reqState = "timedout"
    /\ res.headersSent
    /\ res.statusCode = 504

-----------------------------------------------------------------------------
(* Properties of the upstream connections of a relay *)

\* C32: at any moment a relay session holds at most one open upstream request: when a
\* redirect is followed, the request and response of the previous hop are closed and keep
\* no upstream connection open while later hops run or the body streams.
C32_OneUpstreamOpen == phase = "direct" => openConns <= 1

-----------------------------------------------------------------------------
(* Properties of a redirect to a path *)

\* C33: when a redirect whose Location begins with "/" is followed, the next hop targets the
\* same scheme, hostname and port as the current hop: a hop at host:8080 that redirects to
\* /x is followed at host:8080/x.
C33_SameOrigin ==
    [][/\ phase = "direct"
       /\ nReq' = nReq + 1
       /\ nResp' = nResp + 1
       /\ StartsWith(proxyRes'.location, <<"/">>)
       => /\ proxyReq'.via = proxyReq.via
          /\ proxyReq'.hostname = proxyReq.hostname
          /\ proxyReq'.port = proxyReq.port]_vars

-----------------------------------------------------------------------------
(* Properties of the hosts that receive the jar *)

\* C34: a cookie captured from the Set-Cookie header of one upstream host is replayed only
\* on later hops to that same host: it is never sent to a different host reached through a
\* redirect. Stated for the hop that follows the response that set the cookie.
C34_CookieStaysWithHost ==
    [][/\ phase = "direct"
       /\ nReq' = nReq + 1
       /\ nResp' = nResp + 1
       /\ proxyReq'.hostname # proxyReq.hostname
       => \A i \in 1..Len(proxyRes'.setCookie) :
              ~Includes(proxyReq'.cookie, NameValuePart(proxyRes'.setCookie[i]))]_vars

-----------------------------------------------------------------------------
(* Properties of the player *)

\* C35: in the player (onError of VideoPlayer), after a source is loaded at most 2 automatic
\* reloads are attempted, and only on network or source-not-supported media errors; the next
\* such error, or any error of another kind, puts the player in the error state with no
\* further automatic reload; the retry counter returns to 0 only when the source changes.
\* Stated for the reloads: the timers' load() calls since the source was loaded are at most
\* 2, a timer is set only on those two errors, and no timer reloads in the error state.
C35_AutomaticReloads ==
    [][/\ nReload' <= MaxRetries
       /\ (retryTimers' > retryTimers => videoError' \in {MEDIA_ERR_NETWORK, MEDIA_ERR_SRC_NOT_SUPPORTED})
       /\ (nReload' > nReload => stateError = Undefined)]_vars

\* a YouTube source with the proxy configured, its type declared or left to detection
ProxiedYoutubeSources ==
    {[src |-> u, type |-> t, proxyUrl |-> ProxyBase, headers |-> Undefined, drm |-> Undefined] :
        u \in {UrlYouTube, SampleYouTube.src}, t \in {Undefined, TypeYoutube}}

=============================================================================
